---- MODULE Spec2Model ----
(***************************************************************************)
(* Configuration resolution of showyourwork (src/showyourwork/config.py):  *)
(* the normalizer as_dict, the dependency closure                          *)
(* get_upstream_dependencies, the Overleaf sync validation parse_overleaf  *)
(* and the resolver parse_config with its cache record and stamp text.     *)
(*                                                                         *)
(* Python values are tagged records, one field each:                       *)
(*   [s |-> a]  an atomic scalar (None, a bool, an opaque string)          *)
(*   [n |-> i]  an integer                                                 *)
(*   [c |-> q]  a string whose content matters, as a sequence of pieces    *)
(*              (characters of a URL, components of a path)                *)
(*   [l |-> q]  a list                                                     *)
(*   [d |-> f]  a plain dict, f a function from keys to values             *)
(*   [o |-> f]  an OrderedDict                                             *)
(* The key order of a mapping is not modelled: Python's == on dicts does   *)
(* not read it.                                                            *)
(***************************************************************************)
EXTENDS Integers, Sequences, FiniteSets, TLC

VARIABLES
    x, nest, r1, r2, npc,                   \* the normalizer: input, results
    dependencies, file, stack, result, dpc, \* the dependency closure
    raw, overleaf, outcome,                 \* the sync validation
    git_url, url, text, spc,                \* the stamp text
    config, git_branch, origin, lastRun       \* the resolver and its runs

normVars == <<x, nest, r1, r2, npc>>
depVars == <<dependencies, file, stack, result, dpc>>
syncVars == <<raw, overleaf, outcome>>
stampVars == <<git_url, url, text, spc>>
runVars == <<config, git_branch, origin, lastRun>>
vars == <<normVars, depVars, syncVars, stampVars, runVars>>

----------------------------------------------------------------------------
(* Values *)

S(a) == [s |-> a]
N(i) == [n |-> i]
C(q) == [c |-> q]
L(q) == [l |-> q]
D(f) == [d |-> f]
O(f) == [o |-> f]

IsS(v) == DOMAIN v = {"s"}
IsN(v) == DOMAIN v = {"n"}
IsC(v) == DOMAIN v = {"c"}
IsL(v) == DOMAIN v = {"l"}
IsD(v) == DOMAIN v = {"d"}
IsO(v) == DOMAIN v = {"o"}
IsErr(v) == DOMAIN v = {"err"}

None == S("None")
NoMap == [k \in {} |-> None]
EmptyDict == D(NoMap)
EmptyList == L(<<>>)
ConfigError == [err |-> "ConfigError"]

\* Python truth value of a value (`not x`).
Truthy(v) ==
    CASE IsS(v) -> v.s \notin {"None", "False", ""}
      [] IsN(v) -> v.n # 0
      [] IsC(v) -> Len(v.c) > 0
      [] IsL(v) -> Len(v.l) > 0
      [] IsD(v) -> DOMAIN v.d # {}
      [] IsO(v) -> DOMAIN v.o # {}
      [] OTHER -> TRUE

\* maxdepth=30, the default of as_dict.
DefaultMaxDepth == 30

\* ChainMapDict with the lookup order reversed: the last map that holds the
\* key wins.
ChainMapDict_LastWins(maps) ==
    LET keys == UNION {DOMAIN maps[i] : i \in 1..Len(maps)}
        last(k) == CHOOSE i \in 1..Len(maps) :
                       /\ k \in DOMAIN maps[i]
                       /\ \A j \in (i + 1)..Len(maps) : k \notin DOMAIN maps[j]
    IN  [k \in keys |-> maps[last(k)][k]]

\* dict(ChainMap(*maps)): the keys of all maps; a lookup takes the first map
\* of the chain that holds the key.
ChainMapDict(maps) ==
    LET keys == UNION {DOMAIN maps[i] : i \in 1..Len(maps)}
        first(k) == CHOOSE i \in 1..Len(maps) :
                        /\ k \in DOMAIN maps[i]
                        /\ \A j \in 1..(i - 1) : k \notin DOMAIN maps[j]
    IN  [k \in keys |-> maps[first(k)][k]]

\* [dict(xi) for xi in x if type(xi) is OrderedDict]
OrderedDictsOf(q) ==
    LET ods == SelectSeq(q, IsO)
    IN  [i \in 1..Len(ods) |-> ods[i].o]

\* [xi for xi in x if type(xi) is not OrderedDict]
OthersOf(q) == SelectSeq(q, LAMBDA v : ~IsO(v))

\* MergeList without the test `if y:`: the merged mapping goes first even
\* when it is empty.
MergeList_KeepEmpty(q) ==
    LET y == ChainMapDict(OrderedDictsOf(q))
        z == OthersOf(q)
    IN  IF Len(z) > 0 THEN L(<<D(y)>> \o z) ELSE D(y)

\* The list branch of as_dict (lines 118-128).
MergeList(q) ==
    LET y == ChainMapDict(OrderedDictsOf(q))
        z == OthersOf(q)
    IN  IF Len(z) > 0
        THEN L((IF DOMAIN y # {} THEN <<D(y)>> ELSE <<>>) \o z)
        ELSE D(y)

RECURSIVE Raised(_)
\* A raise somewhere below v: the exception leaves every call above it.
Raised(v) ==
    CASE IsErr(v) -> TRUE
      [] IsD(v) -> \E k \in DOMAIN v.d : Raised(v.d[k])
      [] OTHER -> FALSE

RECURSIVE Recurse_OffByOne(_, _, _)
\* Recurse with the guard `depth >= maxdepth`.
Recurse_OffByOne(v, depth, maxdepth) ==
    CASE depth = 0 /\ ~Truthy(v) -> EmptyDict
      [] depth >= maxdepth -> ConfigError
      [] IsD(v) ->
            [d |-> [k \in DOMAIN v.d |->
                      Recurse_OffByOne(v.d[k], depth + 1, DefaultMaxDepth)]]
      [] IsO(v) ->
            [d |-> [k \in DOMAIN v.o |->
                      Recurse_OffByOne(v.o[k], depth + 1, DefaultMaxDepth)]]
      [] IsL(v) /\ IsD(MergeList(v.l)) ->
            [d |-> [k \in DOMAIN MergeList(v.l).d |->
                      Recurse_OffByOne(MergeList(v.l).d[k], depth + 1, DefaultMaxDepth)]]
      [] IsL(v) -> MergeList(v.l)
      [] OTHER -> v

RECURSIVE Recurse(_, _, _)
\* The body of as_dict (lines 113-136), a raise being the value ConfigError
\* left where it happens. A list becomes MergeList of it, an OrderedDict a
\* dict; the values of the dict at hand are normalized one level down, with
\* the default maxdepth since the recursive call does not pass its own on.
Recurse(v, depth, maxdepth) ==
    CASE depth = 0 /\ ~Truthy(v) -> EmptyDict
      [] depth > maxdepth -> ConfigError
      [] IsD(v) ->
            [d |-> [k \in DOMAIN v.d |->
                      Recurse(v.d[k], depth + 1, DefaultMaxDepth)]]
      [] IsO(v) ->
            [d |-> [k \in DOMAIN v.o |->
                      Recurse(v.o[k], depth + 1, DefaultMaxDepth)]]
      [] IsL(v) /\ IsD(MergeList(v.l)) ->
            [d |-> [k \in DOMAIN MergeList(v.l).d |->
                      Recurse(MergeList(v.l).d[k], depth + 1, DefaultMaxDepth)]]
      [] IsL(v) -> MergeList(v.l)
      [] OTHER -> v

\* as_dict(x, depth, maxdepth): the value returned, or ConfigError when a
\* call of the recursion raised.
as_dict(v, depth, maxdepth) ==
    LET r == Recurse(v, depth, maxdepth)
    IN  IF Raised(r) THEN ConfigError ELSE r

----------------------------------------------------------------------------
(* Inputs of the normalizer *)

MaxNodes == 4
MaxListLen == 3
MaxNest == 32

Keys == {"a", "b"}
Scalars == {None, S("x"), S("y")}
Leaves == Scalars \cup {EmptyList, EmptyDict, O(NoMap)}

RECURSIVE ValsOfSize(_), SeqsOfSize(_, _), MapsOfSize(_, _)
\* Sequences of len values with total nodes in all.
SeqsOfSize(total, len) ==
    IF len = 0 THEN (IF total = 0 THEN {<<>>} ELSE {})
    ELSE UNION {{<<h>> \o t : h \in ValsOfSize(k),
                              t \in SeqsOfSize(total - k, len - 1)} :
                k \in 1..(total - (len - 1))}
\* Functions on the key set K with total nodes in all.
MapsOfSize(total, K) ==
    IF K = {} THEN (IF total = 0 THEN {NoMap} ELSE {})
    ELSE LET k == CHOOSE k \in K : TRUE
         IN  UNION {{(k :> h) @@ t : h \in ValsOfSize(j),
                                     t \in MapsOfSize(total - j, K \ {k})} :
                    j \in 1..(total - (Cardinality(K) - 1))}
\* The values of exactly n nodes.
ValsOfSize(n) ==
    IF n = 1 THEN Leaves
    ELSE LET lists == UNION {SeqsOfSize(n - 1, len) : len \in 1..MaxListLen}
             maps == UNION {MapsOfSize(n - 1, K) : K \in (SUBSET Keys) \ {{}}}
         IN  {L(q) : q \in lists} \cup {D(f) : f \in maps} \cup {O(f) : f \in maps}

SmallValues == UNION {ValsOfSize(n) : n \in 1..MaxNodes}

\* Lists that mix OrderedDicts with shared keys and other elements.
Elems ==
    { S("x"), S("y"), O("a" :> S("x")), O("a" :> S("y")), O("b" :> S("y")),
      O(("a" :> O("b" :> S("x"))) @@ ("b" :> EmptyList)), D("a" :> S("x")) }
ElemLists == UNION {[1..len -> Elems] : len \in 1..MaxListLen}
MixedLists == {L(q) : q \in ElemLists} \cup {D("a" :> L(q)) : q \in ElemLists}

\* One more level of nesting around v: a dict, an OrderedDict, a list of one
\* OrderedDict, or a list that holds v beside a scalar.
Wrap(k, v) ==
    CASE k = "d" -> D("a" :> v)
      [] k = "o" -> O("a" :> v)
      [] k = "lo" -> L(<<O("a" :> v)>>)
      [] k = "ll" -> L(<<v, S("x")>>)
ChainKinds == {"d", "o", "lo"}
BreakKinds == {"d", "o", "lo", "ll"}
ChainSeeds == {S("x"), EmptyDict, EmptyList}
NoNest == [n |-> 0, k |-> "none", breaks |-> 0]

NormInputs == SmallValues \cup MixedLists

----------------------------------------------------------------------------
(* The normalizer applied once and twice *)

\* A component no call of the specification at hand touches stays at rest.
DepsIdle ==
    /\ dependencies = NoMap
    /\ file = "a"
    /\ stack = <<>>
    /\ result = <<>>
    /\ dpc = "idle"

SyncIdle ==
    /\ raw = NoMap
    /\ overleaf = None
    /\ outcome = "idle"

NoRun == [type |-> "none", res |-> "none", branch |-> "none"]
RunIdle ==
    /\ config = NoMap
    /\ git_branch = "none"
    /\ origin = [type |-> "none", branch |-> "none"]
    /\ lastRun = NoRun

StampIdle ==
    /\ git_url = <<>>
    /\ url = [enabled |-> FALSE, maxlen |-> 0]
    /\ text = <<>>
    /\ spc = "idle"

NormIdle ==
    /\ x = None
    /\ nest = NoNest
    /\ r1 = None
    /\ r2 = None
    /\ npc = "idle"

InitNorm ==
    /\ x \in NormInputs
    /\ nest = NoNest
    /\ r1 = None
    /\ r2 = None
    /\ npc = "input"
    /\ DepsIdle
    /\ SyncIdle
    /\ StampIdle
    /\ RunIdle

\* The caller nests its argument one level deeper: chains of one kind of
\* wrapper around a seed, with at most one wrapper of another kind among the
\* outer ones.
Nest ==
    /\ npc = "input"
    /\ nest.n < MaxNest
    /\ nest.n = 0 => x \in ChainSeeds
    /\ \E k \in BreakKinds :
          /\ \/ nest.n = 0 /\ k \in ChainKinds
             \/ nest.n > 0 /\ k = nest.k
             \/ nest.n >= DefaultMaxDepth - 2 /\ nest.breaks = 0 /\ k # nest.k
          /\ x' = Wrap(k, x)
          /\ nest' = [n |-> nest.n + 1,
                      k |-> IF nest.n = 0 THEN k ELSE nest.k,
                      breaks |-> IF nest.n > 0 /\ k # nest.k THEN 1 ELSE nest.breaks]
    /\ UNCHANGED <<r1, r2, npc, depVars, syncVars, stampVars, runVars>>

\* as_dict(x)
Normalize ==
    /\ npc = "input"
    /\ r1' = as_dict(x, 0, DefaultMaxDepth)
    /\ npc' = "once"
    /\ UNCHANGED <<x, nest, r2, depVars, syncVars, stampVars, runVars>>

\* as_dict(as_dict(x))
Renormalize ==
    /\ npc = "once"
    /\ ~IsErr(r1)
    /\ r2' = as_dict(r1, 0, DefaultMaxDepth)
    /\ npc' = "twice"
    /\ UNCHANGED <<x, nest, r1, depVars, syncVars, stampVars, runVars>>

NextNorm == Nest \/ Normalize \/ Renormalize

SpecNorm == InitNorm /\ [][NextNorm]_vars

----------------------------------------------------------------------------
(* Claims about the normalizer *)

RECURSIVE HasOrderedDict(_)
\* An OrderedDict sits somewhere in v.
HasOrderedDict(v) ==
    CASE IsO(v) -> TRUE
      [] IsD(v) -> \E k \in DOMAIN v.d : HasOrderedDict(v.d[k])
      [] IsL(v) -> \E i \in 1..Len(v.l) : HasOrderedDict(v.l[i])
      [] OTHER -> FALSE

RECURSIVE MergeFirstWins(_), MergeLastWins(_)
\* The union of a sequence of maps, a shared key taking its left-most value.
MergeFirstWins(maps) ==
    IF Len(maps) = 0 THEN NoMap ELSE Head(maps) @@ MergeFirstWins(Tail(maps))
\* The union of a sequence of maps, a shared key taking its right-most value.
MergeLastWins(maps) ==
    IF Len(maps) = 0 THEN NoMap ELSE MergeLastWins(Tail(maps)) @@ Head(maps)

\* What the claim says a list q met at the given depth becomes, for a merge.
ListResult(q, depth, merged) ==
    LET z == SelectSeq(q, LAMBDA v : ~IsO(v))
    IN  IF Len(z) > 0
        THEN L((IF DOMAIN merged # {} THEN <<D(merged)>> ELSE <<>>) \o z)
        ELSE D([k \in DOMAIN merged |->
                   as_dict(merged[k], depth + 1, DefaultMaxDepth)])
MapsIn(q) ==
    LET ods == SelectSeq(q, IsO) IN [i \in 1..Len(ods) |-> ods[i].o]

\* The lists of the input the normalizer meets: the input itself, or the
\* values of a mapping input.
ListsAgree(merge(_)) ==
    /\ IsL(x) => r1 = ListResult(x.l, 0, merge(MapsIn(x.l)))
    /\ (IsD(x) \/ IsO(x)) /\ Truthy(x) =>
          LET m == IF IsD(x) THEN x.d ELSE x.o
          IN  \A k \in DOMAIN m :
                  IsL(m[k]) => r1.d[k] = ListResult(m[k].l, 1, merge(MapsIn(m[k].l)))

RECURSIVE Reaches(_, _)
\* The recursion through mappings gets n levels below v: a mapping's values
\* are one level down, and so are those of the mapping a list of
\* OrderedDicts merges into.
Reaches(v, n) ==
    CASE n = 0 -> TRUE
      [] IsD(v) -> \E k \in DOMAIN v.d : Reaches(v.d[k], n - 1)
      [] IsO(v) -> \E k \in DOMAIN v.o : Reaches(v.o[k], n - 1)
      [] IsL(v) /\ (\A i \in 1..Len(v.l) : IsO(v.l[i])) ->
            \E k \in DOMAIN MergeFirstWins(MapsIn(v.l)) :
                Reaches(MergeFirstWins(MapsIn(v.l))[k], n - 1)
      [] OTHER -> FALSE

RECURSIVE IsCanonical(_)
\* Built only from scalars, sequences and plain mappings.
IsCanonical(v) ==
    CASE IsO(v) -> FALSE
      [] IsD(v) -> \A k \in DOMAIN v.d : IsCanonical(v.d[k])
      [] IsL(v) -> \A i \in 1..Len(v.l) : IsCanonical(v.l[i])
      [] OTHER -> TRUE

\* C2: normalizing a normalized value changes nothing: for every input x
\* that as_dict accepts, as_dict(as_dict(x)) = as_dict(x).
C2_Idempotent == npc = "twice" => r2 = r1

\* C2 witness: a list whose OrderedDicts were merged was normalized twice.
C2_Witness ==
    /\ npc = "twice"
    /\ IsL(x) /\ IsL(r1) /\ r1 # x
    /\ HasOrderedDict(x)

\* C3: a value built only from scalars, sequences and plain mappings is
\* returned equal to itself (stated on the inputs that are not falsy: a falsy
\* top-level input becomes the empty mapping by the normalizer's first rule).
C3_CanonicalFixedPoint ==
    (npc # "input" /\ IsCanonical(x) /\ Truthy(x)) => r1 = x

\* C4: no OrderedDict is left anywhere in a value as_dict returns.
C4_NoOrderedDictLeft ==
    (npc # "input" /\ ~IsErr(r1)) => ~HasOrderedDict(r1)

\* C5 (as stated): the OrderedDict elements of a list are merged with the
\* right-most element winning a shared key; the merged mapping, when not
\* empty, goes first and the other elements follow in order, or it is the
\* whole result when no other element remains.
C5_LastWins ==
    (npc # "input" /\ ~IsErr(r1)) => ListsAgree(MergeLastWins)

\* C5 (amended): the same with the left-most element winning a shared key.
C5_FirstWins ==
    (npc # "input" /\ ~IsErr(r1)) => ListsAgree(MergeFirstWins)

\* C5 witness: a normalized list with two OrderedDicts that disagree on a
\* key and another element after them.
C5_Witness ==
    /\ npc = "once"
    /\ IsL(x) /\ IsL(r1)
    /\ \E i, j \in 1..Len(x.l) :
          /\ i < j /\ IsO(x.l[i]) /\ IsO(x.l[j])
          /\ \E k \in DOMAIN x.l[i].o \cap DOMAIN x.l[j].o :
                x.l[i].o[k] # x.l[j].o[k]
    /\ \E i \in 1..Len(x.l) : ~IsO(x.l[i])
    /\ IsD(r1.l[1])

\* C10: as_dict raises ConfigError exactly when the recursion through
\* mappings reaches a value at depth 31; an input whose deepest value is at
\* depth 30 or less is accepted. The depth is counted at every level.
C10_DepthGuard ==
    npc # "input" =>
        (IsErr(r1) <=> (Truthy(x) /\ Reaches(x, DefaultMaxDepth + 1)))

\* C10 witness: an input whose deepest value sits at depth 31 was refused.
C10_Witness ==
    /\ npc = "once"
    /\ Reaches(x, DefaultMaxDepth + 1)
    /\ ~Reaches(x, DefaultMaxDepth + 2)
    /\ IsErr(r1)

----------------------------------------------------------------------------
(* The dependency closure: get_upstream_dependencies, one step per        *)
(* iteration of its loop, the recursion as a stack of frames.             *)

MaxEdges == 4
MaxStack == 5

Files == {"a", "b", "c", "d"}
\* The files the map may list; d is a file no rule of the user produces.
Keyed == {"a", "b", "c"}

RECURSIVE ListsOfLen(_)
\* The lists of n files, none twice.
ListsOfLen(n) ==
    IF n = 0 THEN {<<>>}
    ELSE UNION {{<<f>> \o q : q \in {r \in ListsOfLen(n - 1) :
                                         \A i \in 1..Len(r) : r[i] # f}} :
                f \in Files}

RECURSIVE MapsWithEdges(_, _)
\* The maps on the file set F with at most e dependencies listed in all.
MapsWithEdges(F, e) ==
    IF F = {} THEN {NoMap}
    ELSE LET f == CHOOSE f \in F : TRUE
         IN  UNION {{(f :> q) @@ m : q \in ListsOfLen(j),
                                     m \in MapsWithEdges(F \ {f}, e - j)} :
                    j \in 0..e}

\* A file with no dependencies is either listed with an empty list or left
\* out of the map.
WithoutLeaves(m) ==
    LET dom == {f \in DOMAIN m : Len(m[f]) > 0} IN [f \in dom |-> m[f]]
DepMaps ==
    LET full == MapsWithEdges(Keyed, MaxEdges)
    IN  full \cup {WithoutLeaves(m) : m \in full}

\* dependencies.get(file, [])
DirectDeps(f) == IF f \in DOMAIN dependencies THEN dependencies[f] ELSE <<>>

Frame(f) == [file |-> f, i |-> 1, res |-> {}]
Top == stack[Len(stack)]
Below == SubSeq(stack, 1, Len(stack) - 1)

\* The orders list(res) may give a set.
ListsOfSet(s) ==
    {q \in [1..Cardinality(s) -> s] : \A i, j \in 1..Cardinality(s) : q[i] = q[j] => i = j}

\* get_upstream_dependencies(file, dependencies) has been called.
InitDeps ==
    /\ dependencies \in DepMaps
    /\ file \in Files
    /\ stack = <<Frame(file)>>
    /\ result = <<>>
    /\ dpc = "run"
    /\ NormIdle
    /\ SyncIdle
    /\ StampIdle
    /\ RunIdle

\* Descend without `res |= set([dep])`.
Descend_NoDirect ==
    /\ dpc = "run"
    /\ Top.i <= Len(DirectDeps(Top.file))
    /\ Len(stack) < MaxStack
    /\ stack' = stack \o <<Frame(DirectDeps(Top.file)[Top.i])>>
    /\ UNCHANGED <<dependencies, file, result, dpc, normVars, syncVars, stampVars, runVars>>

\* Descend that does not call itself on a file whose call is still open.
Descend_SkipOpen ==
    /\ dpc = "run"
    /\ Top.i <= Len(DirectDeps(Top.file))
    /\ Len(stack) < MaxStack
    /\ LET dep == DirectDeps(Top.file)[Top.i]
       IN  IF \E k \in 1..Len(stack) : stack[k].file = dep
           THEN stack' = Below \o <<[Top EXCEPT !.res = @ \cup {dep}, !.i = @ + 1]>>
           ELSE stack' = Below \o <<[Top EXCEPT !.res = @ \cup {dep}], Frame(dep)>>
    /\ UNCHANGED <<dependencies, file, result, dpc, normVars, syncVars, stampVars, runVars>>

\* One iteration of the loop: res |= set([dep]), then the recursive call.
Descend ==
    /\ dpc = "run"
    /\ Top.i <= Len(DirectDeps(Top.file))
    /\ Len(stack) < MaxStack
    /\ LET dep == DirectDeps(Top.file)[Top.i]
       IN  stack' = Below \o <<[Top EXCEPT !.res = @ \cup {dep}], Frame(dep)>>
    /\ UNCHANGED <<dependencies, file, result, dpc, normVars, syncVars, stampVars, runVars>>

\* The interpreter's recursion limit ends a recursion that goes on.
Overflow ==
    /\ dpc = "run"
    /\ Top.i <= Len(DirectDeps(Top.file))
    /\ Len(stack) >= MaxStack
    /\ dpc' = "RecursionError"
    /\ stack' = <<>>
    /\ UNCHANGED <<dependencies, file, result, normVars, syncVars, stampVars, runVars>>

\* A recursive call returns its set, which the caller unions into its own.
ReturnInner ==
    /\ dpc = "run"
    /\ Top.i > Len(DirectDeps(Top.file))
    /\ Len(stack) > 1
    /\ LET caller == stack[Len(stack) - 1]
       IN  stack' = SubSeq(stack, 1, Len(stack) - 2)
                    \o <<[caller EXCEPT !.res = @ \cup Top.res, !.i = @ + 1]>>
    /\ UNCHANGED <<dependencies, file, result, dpc, normVars, syncVars, stampVars, runVars>>

\* The call at depth 0 returns list(res).
ReturnOuter ==
    /\ dpc = "run"
    /\ Top.i > Len(DirectDeps(Top.file))
    /\ Len(stack) = 1
    /\ result' \in ListsOfSet(Top.res)
    /\ stack' = <<>>
    /\ dpc' = "done"
    /\ UNCHANGED <<dependencies, file, normVars, syncVars, stampVars, runVars>>

NextDeps == Descend \/ Overflow \/ ReturnInner \/ ReturnOuter

SpecDeps == InitDeps /\ [][NextDeps]_vars

\* The interpreter runs the call on: a step that can be taken is taken.
SpecDepsFair == SpecDeps /\ WF_vars(NextDeps)

----------------------------------------------------------------------------
(* Claims about the dependency closure *)

RECURSIVE ReachWithin(_, _)
\* The files at most n direct-dependency edges away from the files of s.
ReachWithin(s, n) ==
    IF n = 0 THEN s
    ELSE LET next == s \cup UNION {{DirectDeps(f)[i] : i \in 1..Len(DirectDeps(f))} : f \in s}
         IN  ReachWithin(next, n - 1)
\* The files reachable from f by one or more edges.
Reachable(f) ==
    ReachWithin({DirectDeps(f)[i] : i \in 1..Len(DirectDeps(f))}, Cardinality(Files))
Acyclic == \A f \in Files : f \notin Reachable(f)

\* C1: for an acyclic map the returned list holds exactly the files reachable
\* from the queried file by one or more edges, each once, and never the file
\* itself; a file the map does not list has an empty closure.
C1_Closure ==
    (dpc = "done" /\ Acyclic) =>
        /\ {result[i] : i \in 1..Len(result)} = Reachable(file)
        /\ Len(result) = Cardinality(Reachable(file))
        /\ \A i \in 1..Len(result) : result[i] # file
        /\ file \notin DOMAIN dependencies => result = <<>>

\* C1 witness: the closure of a in the diamond a->[b,c], b->[d], c->[d].
C1_Witness ==
    /\ dpc = "done"
    /\ file = "a"
    /\ dependencies = ("a" :> <<"b", "c">>) @@ ("b" :> <<"d">>) @@ ("c" :> <<"d">>)
    /\ Len(result) = 3

\* A cycle of the map can be reached from the queried file.
CycleReachable == \E g \in {file} \cup Reachable(file) : g \in Reachable(g)

\* C11: for an acyclic map the call terminates, returning its list; for a
\* map with a cycle reachable from the queried file (a file listed as its own
\* dependency included) nothing looks for the cycle: the call never returns
\* a result, the recursion going on until the interpreter's limit ends it.
C11_TerminatesIffNoCycle ==
    /\ (Acyclic /\ dpc = "run") ~> (dpc = "done")
    /\ [](CycleReachable => dpc # "done")
    /\ (CycleReachable /\ dpc = "run") ~> (dpc = "RecursionError")

\* C11 witness: the queried file reaches the cycle a -> b -> a, none of the
\* two being the file itself, and the recursion was ended by the limit.
C11_Witness ==
    /\ dpc = "RecursionError"
    /\ file = "c"
    /\ dependencies = ("a" :> <<"b">>) @@ ("b" :> <<"a">>) @@ ("c" :> <<"a">>)


----------------------------------------------------------------------------
(* The sync validation: lines 276-277 of parse_config and parse_overleaf. *)
(* A path string is [c |-> q], q its components.                          *)

MaxPaths == 2

\* config.get(key, default) and config[key] = value on a mapping.
Get(m, k, default) == (m @@ (k :> default))[k]
Put(m, k, v) == (k :> v) @@ m

\* The working directory, the root of the user's repository (line 259), and
\* paths.user().tex, its src/tex directory (lines 195-201).
Repo == <<"repo">>
Tex == Repo \o <<"src", "tex">>

RECURSIVE Collapse(_, _)
\* The components left after `..` and `.` are resolved, from the root.
Collapse(done, rest) ==
    IF Len(rest) = 0 THEN done
    ELSE CASE Head(rest) = ".." ->
                Collapse(SubSeq(done, 1, Len(done) - 1), Tail(rest))
           [] Head(rest) = "." -> Collapse(done, Tail(rest))
           [] OTHER -> Collapse(Append(done, Head(rest)), Tail(rest))

\* Path(file).resolve() of a relative path, no link on the way.
Resolve(q) == Collapse(<<>>, Repo \o q)

\* Whether path.relative_to(root) returns (it raises ValueError otherwise).
IsUnder(q, root) ==
    Len(q) >= Len(root) /\ SubSeq(q, 1, Len(root)) = root
\* path.relative_to(root)
RelativeTo(q, root) == SubSeq(q, Len(root) + 1, Len(q))

\* The loop of lines 193-201 over push + pull: some file is outside src/tex.
SomeOutside(files) ==
    \E i \in 1..Len(files) : ~IsUnder(Resolve(files[i].c), Tex)

\* SyncFiles that compares the paths as they are written.
SyncFiles_AsWritten(files) == {files[i].c : i \in 1..Len(files)}

\* set([str(Path(file).resolve().relative_to(paths.user().tex)) ...])
SyncFiles(files) ==
    {RelativeTo(Resolve(files[i].c), Tex) : i \in 1..Len(files)}

\* push or pull of the section: absent is [], None becomes [] (lines 175-177
\* and 183-185).
ListField(ov, k) ==
    LET v == Get(ov, k, EmptyList) IN IF v = None THEN EmptyList ELSE v

\* parse_overleaf() on config["overleaf"] = ov: the outcome and the section
\* as the call leaves it.
parse_overleaf(ov) ==
    LET ov1 == ov @@ [id |-> None, gh_actions_sync |-> S("True")]
        push == ListField(ov, "push")
        ov2 == Put(ov1, "push", push)
        pull == ListField(ov, "pull")
        ov3 == Put(ov2, "pull", pull)
    IN  IF ~IsL(push) THEN [res |-> "ConfigError", ov |-> ov2]
        ELSE IF ~IsL(pull) THEN [res |-> "ConfigError", ov |-> ov3]
        ELSE IF SomeOutside(push.l \o pull.l)
                THEN [res |-> "ConfigError", ov |-> ov3]
        ELSE IF SyncFiles(push.l) \cap SyncFiles(pull.l) # {}
                THEN [res |-> "ConfigError", ov |-> ov3]
        ELSE [res |-> "ok", ov |-> ov3]

\* config["overleaf"] = as_dict(config.get("overleaf", {})); parse_overleaf()
\* The outcome, and config["overleaf"] as the two lines leave it.
sync_section(c) ==
    LET sec == as_dict(Get(c, "overleaf", EmptyDict), 0, DefaultMaxDepth)
    IN  IF IsErr(sec) THEN [res |-> "ConfigError", ov |-> Get(c, "overleaf", None)]
        ELSE IF ~IsD(sec) THEN [res |-> "AttributeError", ov |-> sec]
        ELSE LET p == parse_overleaf(sec.d) IN [res |-> p.res, ov |-> D(p.ov)]

\* Paths a user may list: under src/tex (two spellings of a.tex), and outside.
PathsUnder ==
    { <<"src", "tex", "a.tex">>, <<"src", "tex", "sub", "..", "a.tex">>,
      <<"src", "tex", "sub", "a.tex">> }
PathsOutside == { <<"..", "outside.tex">> }
PathStrings == {C(q) : q \in PathsUnder \cup PathsOutside}
PathLists == UNION {[1..len -> PathStrings] : len \in 0..MaxPaths}

\* What the user's file may give for push or pull: nothing ("absent"), null,
\* a string, a mapping, or a list of paths.
FieldValues ==
    {None, C(<<"src", "tex", "a.tex">>), EmptyDict, O("a" :> S("x"))}
    \cup {L(q) : q \in PathLists}
Sections ==
    LET fields(k) == {NoMap} \cup {k :> v : v \in FieldValues}
    IN  {a @@ b : a \in fields("push"), b \in fields("pull")}
RawOverleaf ==
    {NoMap, "overleaf" :> None}
    \cup {"overleaf" :> D(m) : m \in Sections}
    \cup {"overleaf" :> O(m) : m \in Sections}

\* The user's configuration has been loaded.
InitSync ==
    /\ raw \in RawOverleaf
    /\ overleaf = None
    /\ outcome = "loaded"
    /\ NormIdle
    /\ DepsIdle
    /\ StampIdle
    /\ RunIdle

\* Lines 276-277: the section is normalized and validated.
SyncValidate ==
    /\ outcome = "loaded"
    /\ LET r == sync_section(raw)
       IN  /\ outcome' = r.res
           /\ overleaf' = r.ov
    /\ UNCHANGED <<raw, normVars, depVars, stampVars, runVars>>

NextSync == SyncValidate

SpecSync == InitSync /\ [][NextSync]_vars

----------------------------------------------------------------------------
(* Claims about the sync validation *)

\* The value the user gave for push or pull, if any.
Given(k) ==
    IF "overleaf" \in DOMAIN raw /\ (IsD(raw.overleaf) \/ IsO(raw.overleaf))
    THEN LET m == IF IsD(raw.overleaf) THEN raw.overleaf.d ELSE raw.overleaf.o
         IN  IF k \in DOMAIN m THEN {m[k]} ELSE {}
    ELSE {}
\* The paths the user listed under push or pull.
Listed(k) ==
    UNION {{v.l[i].c : i \in 1..Len(v.l)} : v \in {w \in Given(k) : IsL(w)}}
ResolvedUnder(q) == IsUnder(Resolve(q), Tex)
ResolvedSet(paths) == {Resolve(q) : q \in paths}

\* The three refusals and what a normal return guarantees, for the values of
\* push and pull that count as not being a sequence.
SyncContract(NotSequence(_)) ==
    outcome \notin {"idle", "loaded"} =>
        /\ (\E k \in {"push", "pull"} : \E v \in Given(k) : NotSequence(v))
              => outcome = "ConfigError"
        /\ (\E q \in Listed("push") \cup Listed("pull") : ~ResolvedUnder(q))
              => outcome = "ConfigError"
        /\ ResolvedSet(Listed("push")) \cap ResolvedSet(Listed("pull")) # {}
              => outcome = "ConfigError"
        /\ outcome = "ok" =>
              /\ IsL(overleaf.d.push) /\ IsL(overleaf.d.pull)
              /\ \A k \in {"push", "pull"} : \A i \in 1..Len(overleaf.d[k].l) :
                    ResolvedUnder(overleaf.d[k].l[i].c)
              /\ ResolvedSet({overleaf.d.push.l[i].c : i \in 1..Len(overleaf.d.push.l)})
                 \cap ResolvedSet({overleaf.d.pull.l[i].c : i \in 1..Len(overleaf.d.pull.l)})
                 = {}

\* C7 (as stated): the validation raises ConfigError whenever push or pull
\* is given as a value that is not a sequence, whenever a listed path
\* resolves outside src/tex and whenever the resolved push and pull sets
\* share a path; when it returns, push and pull are sequences of paths under
\* src/tex with disjoint resolved sets.
C7_AnyNonSequence == SyncContract(LAMBDA v : ~IsL(v))

\* C7 (amended): the same, a null push or pull not counting as a value that
\* is not a sequence: it is replaced by the empty sequence.
C7_NonSequenceButNull == SyncContract(LAMBDA v : ~IsL(v) /\ v # None)

\* C7 witness: push and pull name the same file under src/tex in two
\* spellings, and the validation refused them.
C7_Witness ==
    /\ outcome = "ConfigError"
    /\ \A q \in Listed("push") \cup Listed("pull") : ResolvedUnder(q)
    /\ Listed("push") \cap Listed("pull") = {}
    /\ ResolvedSet(Listed("push")) \cap ResolvedSet(Listed("pull")) # {}
    /\ \A k \in {"push", "pull"} : \A v \in Given(k) : IsL(v)

----------------------------------------------------------------------------
(* The stamp text: lines 438-453 of parse_config.  A string is the        *)
(* sequence of its characters.                                            *)

MaxSegs == 4
MaxStampLen == 12

Https == <<"h", "t", "t", "p", "s", ":", "/", "/">>
Http == <<"h", "t", "t", "p", ":", "/", "/">>
GitHubHost == <<"g", "i", "t", "h", "u", "b", ".", "c", "o", "m">>
Underscore == <<"_">>
Dots == <<".", ".", ".">>
\* r"{\_}" and r"{\faGithub}"
EscapedUnderscore == <<"{", "\\", "_", "}">>
FaGithub == <<"{", "\\", "f", "a", "G", "i", "t", "h", "u", "b", "}">>

RECURSIVE Replace(_, _, _)
\* s.replace(old, new): the occurrences of old, left to right and not
\* overlapping, each replaced by new.
Replace(s, old, new) ==
    IF Len(s) < Len(old) THEN s
    ELSE IF SubSeq(s, 1, Len(old)) = old
         THEN new \o Replace(SubSeq(s, Len(old) + 1, Len(s)), old, new)
         ELSE <<Head(s)>> \o Replace(Tail(s), old, new)

\* s[:-n] for n > 0
DropLast(s, n) == SubSeq(s, 1, Len(s) - n)

\* config["git_url"].replace("https://", "").replace("http://", "")
Stripped(u) == Replace(Replace(u, Https, <<>>), Http, <<>>)
\* stamp_text.replace("github.com", "X")
Collapsed(s) == Replace(s, GitHubHost, <<"X">>)
\* stamp_text.replace("_", r"{\_}").replace("github.com", r"{\faGithub}")
Substituted(s) == Replace(Replace(s, Underscore, EscapedUnderscore), GitHubHost, FaGithub)

\* StampText that cuts trim characters only, leaving no room for the dots.
StampText_NoRoom(u, enabled, maxlen) ==
    IF enabled
    THEN LET stamp_text == Stripped(u)
             trim == Len(Collapsed(stamp_text)) - maxlen
         IN  Substituted(IF trim > 0
                         THEN DropLast(stamp_text, trim) \o Dots
                         ELSE stamp_text)
    ELSE <<>>

\* config["stamp"]["text"] as lines 439-453 set it.
StampText(u, enabled, maxlen) ==
    IF enabled
    THEN LET stamp_text == Stripped(u)
             trim == Len(Collapsed(stamp_text)) - maxlen
         IN  Substituted(IF trim > 0
                         THEN DropLast(stamp_text, trim + 3) \o Dots
                         ELSE stamp_text)
    ELSE <<>>

\* Repository URLs: up to MaxSegs pieces.
Segments == {Https, Http, GitHubHost, Underscore, <<"a", "b">>}
RECURSIVE UrlsOf(_)
UrlsOf(n) ==
    IF n = 0 THEN {<<>>}
    ELSE UrlsOf(n - 1) \cup {s \o u : s \in Segments, u \in UrlsOf(n - 1)}
Urls == UrlsOf(MaxSegs)

\* The repository URL has been read and the stamp settings are resolved.
InitStamp ==
    /\ git_url \in Urls
    /\ url \in [enabled : BOOLEAN, maxlen : (0 - 2)..MaxStampLen]
    /\ text = <<>>
    /\ spc = "resolved"
    /\ NormIdle
    /\ DepsIdle
    /\ SyncIdle
    /\ RunIdle

\* Lines 439-453: the stamp text is derived.
Stamp ==
    /\ spc = "resolved"
    /\ text' = StampText(git_url, url.enabled, url.maxlen)
    /\ spc' = "stamped"
    /\ UNCHANGED <<git_url, url, normVars, depVars, syncVars, runVars>>

NextStamp == Stamp

SpecStamp == InitStamp /\ [][NextStamp]_vars

----------------------------------------------------------------------------
(* Claims about the stamp text *)

RECURSIVE Count(_, _)
\* The occurrences of pat in s, left to right and not overlapping.
Count(s, pat) ==
    IF Len(s) < Len(pat) THEN 0
    ELSE IF SubSeq(s, 1, Len(pat)) = pat
         THEN 1 + Count(SubSeq(s, Len(pat) + 1, Len(s)), pat)
         ELSE Count(Tail(s), pat)

EndsInDots(s) == Len(s) >= 3 /\ SubSeq(s, Len(s) - 2, Len(s)) = Dots
TooLong == Len(Collapsed(Stripped(git_url))) > url.maxlen
Max(a, b) == IF a >= b THEN a ELSE b

\* The stamp text within a bound on the length of a truncated text.
StampContract(bound) ==
    spc = "stamped" =>
        /\ (url.enabled /\ TooLong) => EndsInDots(text) /\ Len(text) <= bound
        /\ (url.enabled /\ ~TooLong) =>
              /\ text = Substituted(Stripped(git_url))
              /\ Len(text) = Len(Stripped(git_url))
                    + Count(Stripped(git_url), Underscore) * (Len(EscapedUnderscore) - 1)
                    + Count(Stripped(git_url), GitHubHost) * (Len(FaGithub) - Len(GitHubHost))
        /\ ~url.enabled => text = <<>>

\* C9 (as stated): with the URL stamp enabled, a URL whose stripped and
\* host-collapsed form is longer than maxlen gives a text that ends in "..."
\* and is at most maxlen plus the length of the host's replacement literal
\* long; one that is not longer is not truncated; with the URL stamp disabled
\* the text is empty.
C9_BoundByLiteral == StampContract(url.maxlen + Len(FaGithub))

\* C9 (amended): the same with the length bound
\* max(maxlen + 9 h, 3) + h + 3 u, h the number of host fragments and u the
\* number of underscores of the stripped URL: the cut leaves maxlen + 9 h
\* characters (or the three dots alone), and the substitutions made after
\* the cut add one character for a host fragment and three for an underscore.
C9_BoundBySubstitutions ==
    LET h == Count(Stripped(git_url), GitHubHost)
        u == Count(Stripped(git_url), Underscore)
    IN  StampContract(Max(url.maxlen + h * (Len(GitHubHost) - 1), 3)
                        + h * (Len(FaGithub) - Len(GitHubHost))
                        + u * (Len(EscapedUnderscore) - 1))

\* C9 witness: with maxlen not negative, a URL with a host fragment and an
\* underscore was truncated to a text longer than maxlen plus the host's
\* replacement literal.
C9_Witness ==
    /\ spc = "stamped"
    /\ url.enabled
    /\ url.maxlen >= 0
    /\ TooLong
    /\ Count(Stripped(git_url), GitHubHost) = 1
    /\ Count(Stripped(git_url), Underscore) >= 1
    /\ EndsInDots(text)
    /\ Len(text) > url.maxlen + Len(FaGithub)

----------------------------------------------------------------------------
(* The resolver parse_config and its runs.  The workflow's config is a     *)
(* function from keys to values; a run that raises persists nothing.       *)

Ok(c) == [res |-> "ok", config |-> c]
Raise(e, c) == [res |-> e, config |-> c]
\* Body(v) for the value v of an expression, computed once.
Bind(e, Body(_)) == CHOOSE out \in {Body(v) : v \in {e}} : TRUE
\* The next statements run only if nothing was raised.
Then(r, Stage(_)) ==
    Bind(r, LAMBDA v : IF v.res = "ok" THEN Stage(v.config) ELSE v)

\* m[k] = m.get(k, v)
SetDefault(m, k, v) == m @@ (k :> v)
\* as_dict(config.get(k, {}))
Section(c, k) == as_dict(Get(c, k, EmptyDict), 0, DefaultMaxDepth)
\* What using a section as a dict raises, if anything.
SectionError(sec) ==
    IF IsErr(sec) THEN "ConfigError" ELSE IF ~IsD(sec) THEN "AttributeError" ELSE "ok"
IsStr(v) == IsS(v) \/ IsC(v)
\* list(m.keys()); the order of the keys is not modelled, one order is taken.
KeyList(m) ==
    CHOOSE q \in [1..Cardinality(DOMAIN m) -> DOMAIN m] :
        \A i, j \in DOMAIN q : i # j => q[i] # q[j]

\* Lines 246-252
NameSettings(c) ==
    Ok(c @@ [version |-> None, verbose |-> S("False"), ms_name |-> S("ms")])

\* Lines 263-267
ScriptSettings(c) ==
    Bind(Section(c, "scripts"), LAMBDA sec :
        IF SectionError(sec) # "ok" THEN Raise(SectionError(sec), c)
        ELSE Ok(Put(c, "scripts",
                    D(SetDefault(sec.d, "py", S("MATPLOTLIBRC=scripts python {script}"))))))

\* Lines 270-273
DataSettings(c) ==
    Bind(<<Section(c, "dependencies"), Section(c, "datasets")>>, LAMBDA secs :
        IF IsErr(secs[1]) \/ IsErr(secs[2]) THEN Raise("ConfigError", c)
        ELSE Ok([dependencies |-> secs[1], datasets |-> secs[2]] @@ c))

\* Lines 276-277
OverleafSettings(c) ==
    Bind(sync_section(c), LAMBDA r :
        IF r.res = "ok" THEN Ok(Put(c, "overleaf", r.ov)) ELSE Raise(r.res, c))

\* Lines 280-285
InputSettings(c) ==
    Ok(c @@ [require_inputs |-> S("True"), run_cache_rules_on_ci |-> S("False")])

NodeAttrDefaults == [shape |-> S("box"), penwidth |-> S("2"), width |-> S("1")]
GraphAttrDefaults == [ranksep |-> S("1"), nodesep |-> S("0.65")]

\* Lines 304-308
IgnoreFiles(v) ==
    IF v = None THEN EmptyList ELSE IF IsStr(v) THEN L(<<v>>) ELSE v

\* Lines 289-308, on the dict that as_dict returned
DagDefaults(dag) ==
    IF ~IsD(Get(dag, "node_attr", EmptyDict)) \/ ~IsD(Get(dag, "graph_attr", EmptyDict))
    THEN [err |-> "TypeError"]
    ELSE D([node_attr |-> D(Get(dag, "node_attr", EmptyDict).d @@ NodeAttrDefaults),
            graph_attr |-> D(Get(dag, "graph_attr", EmptyDict).d @@ GraphAttrDefaults),
            ignore_files |-> IgnoreFiles(Get(dag, "ignore_files", EmptyList))]
           @@ dag
           @@ [render |-> S("False"), group_by_type |-> S("False"), engine |-> S("sfdp")])

\* Lines 288-308
DagSettings(c) ==
    Bind(Section(c, "dag"), LAMBDA sec :
        IF SectionError(sec) # "ok" THEN Raise(SectionError(sec), c)
        ELSE Bind(DagDefaults(sec.d), LAMBDA dag :
                IF IsErr(dag) THEN Raise(dag.err, c)
                ELSE Ok(Put(c, "dag", dag))))

\* Lines 311-323
TectonicSettings(c) ==
    Bind(Get(c, "tectonic_args", EmptyList), LAMBDA args :
        IF ~(IsL(args) /\ \A i \in 1..Len(args.l) : IsStr(args.l[i]))
        THEN Raise("ConfigError", Put(c, "user_args", args))
        ELSE Ok([user_args |-> args]
                @@ c @@ [synctex |-> S("True"), optimize_caching |-> S("False")]))

StampDefaults ==
    [enabled |-> S("True"), size |-> S("0.75"), xpos |-> S("1.0"),
     ypos |-> S("1.0"), angle |-> N(0 - 20)]
\* maxlen of lines 336-338
DefaultStampLen == 40

\* Lines 326-338
StampSettings(c) ==
    Bind(Section(c, "stamp"), LAMBDA sec :
        IF SectionError(sec) # "ok" THEN Raise(SectionError(sec), c)
        ELSE Bind(as_dict(Get(sec.d @@ StampDefaults, "url", EmptyDict), 0, DefaultMaxDepth),
                  LAMBDA u :
                IF SectionError(u) # "ok" THEN Raise(SectionError(u), c)
                ELSE Ok(Put(c, "stamp",
                            D([url |-> D(u.d @@ [enabled |-> S("False"),
                                                 maxlen |-> N(DefaultStampLen)])]
                              @@ sec.d @@ StampDefaults)))))

ColorDefaults ==
    [github |-> S("0.12,0.47,0.71"), sandbox |-> S("0.80,0.14,0.19"),
     cache |-> S("0.12,0.47,0.71"), dataset |-> S("0.12,0.47,0.71")]

\* Lines 341-359
MarginIconSettings(c) ==
    Bind(Section(c, "margin_icons"), LAMBDA sec :
        IF SectionError(sec) # "ok" THEN Raise(SectionError(sec), c)
        ELSE Bind(as_dict(Get(sec.d, "colors", EmptyDict), 0, DefaultMaxDepth),
                  LAMBDA colors :
                IF SectionError(colors) # "ok" THEN Raise(SectionError(colors), c)
                ELSE Ok(Put(c, "margin_icons",
                            D([colors |-> D(colors.d @@ ColorDefaults)]
                              @@ sec.d @@ [monochrome |-> S("False")])))))

\* Lines 366-412
InternalSettings(c) ==
    IF ~IsS(c.ms_name) THEN Raise("TypeError", c)
    ELSE Ok([cache |-> Get(c, "cache", EmptyDict),
             user_abspath |-> S("/repo"),
             workflow_abspath |-> S("/showyourwork/workflow"),
             tex_files_in |-> L(<<S("/showyourwork/workflow/resources/tex/showyourwork.tex")>>),
             ms_tex |-> C(<<"src", "tex", c.ms_name.s, ".tex">>),
             ms_pdf |-> C(<<c.ms_name.s, ".pdf">>),
             config_json |-> S(".showyourwork/config.json"),
             stylesheet |-> S("showyourwork.tex"),
             stylesheet_meta_file |-> S("showyourwork-metadata.tex"),
             script_extensions |-> L([i \in 1..Cardinality(DOMAIN c.scripts.d) |->
                                          S(KeyList(c.scripts.d)[i])]),
             tree |-> D([figures |-> EmptyDict]),
             cached_deps |-> EmptyList,
             dag_dependencies |-> EmptyDict,
             dag_dependencies_recursive |-> EmptyDict,
             labels |-> EmptyDict]
            @@ c)

\* Lines 421-427: what git and the environment report.
GitInfo(c, branch, u) ==
    [git_sha |-> S("sha"), git_url |-> C(u), git_slug |-> S("user/repo"),
     git_branch |-> S(branch), github_actions |-> S("False"),
     github_runid |-> S(""), git_tag |-> None]
    @@ c

\* CacheRecord that writes null over the archive identifier.
CacheRecord_Reset(rec) == [zenodo |-> None] @@ rec @@ [sandbox |-> None]

\* Lines 431-436: the sub-fields of the branch's record, kept if present.
CacheRecord(rec) == rec @@ [zenodo |-> None, sandbox |-> None]

\* Lines 428-436
CacheSettings(c) ==
    IF "cache" \notin DOMAIN c THEN Raise("KeyError", c)
    ELSE IF ~IsD(c.cache) THEN Raise("AttributeError", c)
    ELSE IF ~IsD(Get(c.cache.d, c.git_branch.s, EmptyDict)) THEN Raise("AttributeError", c)
    ELSE Ok(Put(c, "cache",
                D(Put(c.cache.d, c.git_branch.s,
                      D(CacheRecord(Get(c.cache.d, c.git_branch.s, EmptyDict).d))))))

\* __version__ of a development release
StampVersion == S("dev")

\* Lines 439-458
StampMetadata(c) ==
    IF "stamp" \notin DOMAIN c THEN Raise("KeyError", c)
    ELSE IF ~IsD(c.stamp) \/ ~IsD(Get(c.stamp.d, "url", None)) THEN Raise("TypeError", c)
    ELSE IF {"enabled", "maxlen"} \cap DOMAIN c.stamp.d.url.d # {"enabled", "maxlen"}
            THEN Raise("KeyError", c)
    ELSE IF Truthy(c.stamp.d.url.d.enabled) /\ ~IsN(c.stamp.d.url.d.maxlen)
            THEN Raise("TypeError", c)
    ELSE Ok(Put(c, "stamp",
                D([text |-> C(IF Truthy(c.stamp.d.url.d.enabled)
                              THEN StampText(c.git_url.c, TRUE, c.stamp.d.url.d.maxlen.n)
                              ELSE <<>>),
                   version |-> StampVersion]
                  @@ c.stamp.d)))

\* Lines 242-412: the settings of the preprocessing stage.
Preprocess(c) ==
    Then(Then(Then(Then(Then(Then(Then(Then(Then(
        NameSettings(c),
        ScriptSettings), DataSettings), OverleafSettings), InputSettings),
        DagSettings), TectonicSettings), StampSettings), MarginIconSettings),
        InternalSettings)

\* Lines 421-458: what every run computes.
EveryRun(c, branch, u) ==
    Then(Bind(GitInfo(c, branch, u), CacheSettings), StampMetadata)

\* parse_config() on the workflow's config c, for the main snakefile of the
\* run and the branch and remote URL of the repository.
parse_config(c, main_snakefile, branch, u) ==
    Then(IF main_snakefile = "prep.smk" THEN Preprocess(c) ELSE Ok(c),
         LAMBDA cc : EveryRun(cc, branch, u))

\* What the user's files may hold, option by option.
UnderTex(name) == C(<<"src", "tex", name>>)
OverleafOptions ==
    { NoMap,
      "overleaf" :> D(("push" :> L(<<UnderTex("a.tex")>>)) @@ ("pull" :> L(<<UnderTex("b.tex")>>))),
      "overleaf" :> D(("push" :> L(<<UnderTex("a.tex")>>)) @@ ("pull" :> L(<<UnderTex("a.tex")>>))) }
DagOptions ==
    { NoMap,
      "dag" :> D("ignore_files" :> S("f.dat")) }
StampOptions ==
    { NoMap,
      "stamp" :> D("url" :> D(("enabled" :> S("True")) @@ ("maxlen" :> N(5)))) }
TectonicOptions ==
    { NoMap, "tectonic_args" :> S("-Z") }
CacheOptions ==
    { NoMap, "cache" :> D("dev" :> D(("zenodo" :> S("id")) @@ ("sandbox" :> None))) }
RawConfigs ==
    { o @@ g @@ s @@ a @@ k :
        o \in OverleafOptions, g \in DagOptions, s \in StampOptions,
        a \in TectonicOptions, k \in CacheOptions }

Branches == {"main", "dev"}
RemoteUrls ==
    { Https \o GitHubHost \o <<"/", "u", "/", "r">>,
      Https \o GitHubHost \o <<"/", "u", "_", "n", "/", "r", "_", "n">> }

\* The user's configuration has been loaded into the workflow.
InitConfig ==
    /\ config \in RawConfigs
    /\ git_branch \in Branches
    /\ git_url \in RemoteUrls
    /\ origin = [type |-> "raw", branch |-> "none"]
    /\ lastRun = NoRun
    /\ url = [enabled |-> FALSE, maxlen |-> 0]
    /\ text = <<>>
    /\ spc = "idle"
    /\ NormIdle
    /\ DepsIdle
    /\ SyncIdle

\* What a run of parse_config that returned r leaves behind.
Finish(type, r) ==
    /\ lastRun' = [type |-> type, res |-> r.res, branch |-> git_branch]
    /\ IF r.res = "ok"
       THEN /\ config' = r.config
            /\ origin' = [type |-> type, branch |-> git_branch]
       ELSE UNCHANGED <<config, origin>>
    /\ UNCHANGED <<git_branch, normVars, depVars, syncVars, stampVars>>

\* parse_config() in the preprocessing stage.
ParsePrep ==
    \E r \in {parse_config(config, "prep.smk", git_branch, git_url)} :
        Finish("prep", r)

\* parse_config() in the build.
ParseBuild ==
    \E r \in {parse_config(config, "build.smk", git_branch, git_url)} :
        Finish("build", r)

\* The user changes branch between runs.
Checkout ==
    /\ \E b \in Branches \ {git_branch} : git_branch' = b
    /\ UNCHANGED <<config, origin, lastRun, normVars, depVars, syncVars, stampVars>>

\* An archive or sandbox collaborator fills in a null identifier of a
\* branch's record.
RecordIdentifier ==
    /\ "cache" \in DOMAIN config
    /\ \E b \in DOMAIN config.cache.d : \E f \in {"zenodo", "sandbox"} :
          /\ f \in DOMAIN config.cache.d[b].d
          /\ config.cache.d[b].d[f] = None
          /\ config' = Put(config, "cache",
                           D(Put(config.cache.d, b,
                                 D(Put(config.cache.d[b].d, f, S("id"))))))
    /\ origin' = [type |-> "external", branch |-> origin.branch]
    /\ UNCHANGED <<git_branch, lastRun, normVars, depVars, syncVars, stampVars>>

NextConfig == ParsePrep \/ ParseBuild \/ Checkout \/ RecordIdentifier

SpecConfig == InitConfig /\ [][NextConfig]_vars

----------------------------------------------------------------------------
(* Claims about the resolver's runs *)

CacheOf(c) == IF "cache" \in DOMAIN c THEN c.cache.d ELSE NoMap
Complete(rec) == IsD(rec) /\ {"zenodo", "sandbox"} \subseteq DOMAIN rec.d

C8_RerunIsIdentity ==
    [][ (\/ ParsePrep /\ origin = [type |-> "prep", branch |-> git_branch]
         \/ ParseBuild /\ origin = [type |-> "build", branch |-> git_branch])
        => lastRun'.res = "ok" /\ config' = config
      ]_vars

====
